---- MODULE Spec2Model ----
(***************************************************************************)
(* Model of the OSINT search backend (src/app.py): client identity,        *)
(* the per-client daily rate limiter, query targeting, the upstream        *)
(* search call and the search log written by the /search handler.          *)
(*                                                                         *)
(* Text is modelled as a sequence of one-character strings; the keyword    *)
(* group of a search modifier is kept as one multi-character token.        *)
(***************************************************************************)
EXTENDS Integers, Sequences, FiniteSets, TLC

VARIABLES
  clients,      \* table clients: client_id -> settings row
  search_logs,  \* table search_logs: sequence of rows in insertion order
  now,          \* wall clock, in ticks of UTC
  tz,           \* offset of the process's local time zone from UTC, in ticks
  req,          \* per in-flight request: locals of search() and its position
  nreq,         \* number of /search requests started so far
  probe,        \* argument and result of the last call of a function under
                \* test, cleared when the state it was computed on changes
  locked        \* a connection that was never closed holds the write lock
                \* of the database file

vars == <<clients, search_logs, now, tz, req, nreq, probe, locked>>

----------------------------------------------------------------------------
(* Python str methods on text *)

\* Text is over the characters U+0000..U+00FF, the ones a string of the
\* model can hold. The letters with another case: A-Z and the capitals of
\* U+00C0..U+00DE, each with its small letter
UpperAlpha == <<"A","B","C","D","E","F","G","H","I","J","K","L","M",
                "N","O","P","Q","R","S","T","U","V","W","X","Y","Z",
                "À","Á","Â","Ã","Ä","Å","Æ","Ç","È","É","Ê","Ë","Ì",
                "Í","Î","Ï","Ð","Ñ","Ò","Ó","Ô","Õ","Ö","Ø","Ù","Ú",
                "Û","Ü","Ý","Þ">>
LowerAlpha == <<"a","b","c","d","e","f","g","h","i","j","k","l","m",
                "n","o","p","q","r","s","t","u","v","w","x","y","z",
                "à","á","â","ã","ä","å","æ","ç","è","é","ê","ë","ì",
                "í","î","ï","ð","ñ","ò","ó","ô","õ","ö","ø","ù","ú",
                "û","ü","ý","þ">>

\* c.lower() of one character
LowerChar(c) ==
  IF \E i \in DOMAIN UpperAlpha : UpperAlpha[i] = c
  THEN LowerAlpha[CHOOSE i \in DOMAIN UpperAlpha : UpperAlpha[i] = c]
  ELSE c

\* c.upper() of one character, a text: 'ß' becomes 'SS'; the capitals of 'ÿ'
\* and 'µ' lie beyond U+00FF and are written as one token each
UpperChar(c) ==
  IF \E i \in DOMAIN LowerAlpha : LowerAlpha[i] = c
  THEN <<UpperAlpha[CHOOSE i \in DOMAIN LowerAlpha : LowerAlpha[i] = c]>>
  ELSE CASE c = "ß" -> <<"S", "S">>
         [] c = "ÿ" -> <<"\\u0178">>
         [] c = "µ" -> <<"\\u039c">>
         [] OTHER   -> <<c>>

\* str.lower()
Lower(s) == [i \in 1..Len(s) |-> LowerChar(s[i])]

RECURSIVE Upper(_)
\* str.upper()
Upper(s) == IF s = <<>> THEN <<>> ELSE UpperChar(Head(s)) \o Upper(Tail(s))

\* The characters with str.isspace(), the ones str.strip() removes: U+0009
\* to U+000D, U+001C to U+001F, the space, U+0085 and U+00A0
SpaceChars == <<"\t","\n","","\f","\r","","","",""," ",""," ">>

IsSpace(c) == \E i \in DOMAIN SpaceChars : SpaceChars[i] = c

RECURSIVE LStrip(_)
LStrip(s) == IF s # <<>> /\ IsSpace(Head(s)) THEN LStrip(Tail(s)) ELSE s

RECURSIVE RStrip(_)
RStrip(s) ==
  IF s # <<>> /\ IsSpace(s[Len(s)]) THEN RStrip(SubSeq(s, 1, Len(s) - 1)) ELSE s

\* str.strip()
Strip(s) == RStrip(LStrip(s))

\* str.endswith / str.startswith
EndsWith(s, suffix) ==
  /\ Len(suffix) <= Len(s)
  /\ SubSeq(s, Len(s) - Len(suffix) + 1, Len(s)) = suffix

StartsWith(s, prefix) ==
  /\ Len(prefix) <= Len(s)
  /\ SubSeq(s, 1, Len(prefix)) = prefix

\* sub in s, for a non-empty sub
Contains(s, sub) ==
  \E i \in 1..(Len(s) - Len(sub) + 1) : SubSeq(s, i, i + Len(sub) - 1) = sub

RECURSIVE Replace(_, _, _)
\* s.replace(old, new) for a non-empty old: left to right, not overlapping
Replace(s, old, new) ==
  IF s = <<>> THEN <<>>
  ELSE IF StartsWith(s, old)
       THEN new \o Replace(SubSeq(s, Len(old) + 1, Len(s)), old, new)
       ELSE <<Head(s)>> \o Replace(Tail(s), old, new)

----------------------------------------------------------------------------
(* JSON values of the request payload *)

JStr(s)  == [t |-> "str",    s |-> s,    n |-> 0]
JInt(n)  == [t |-> "int",    s |-> <<>>, n |-> n]
JNull    == [t |-> "null",   s |-> <<>>, n |-> 0]
JAbsent  == [t |-> "absent", s |-> <<>>, n |-> 0]

DigitChars == <<"0","1","2","3","4","5","6","7","8","9">>

\* str(value) for a string or a one-digit integer
PyStr(v) == IF v.t = "int" THEN <<DigitChars[v.n + 1]>> ELSE v.s

\* dict.get(key, default): the default stands in for a missing key only
DictGet(v, default) == IF v.t = "absent" THEN default ELSE v

----------------------------------------------------------------------------
(* Query targeting: search() lines 368-453 *)

search_modifiers ==
  <<
    [tag |-> <<"c", "r", "i", "m", "i", "n", "a", "l">>,
     group |-> "(arrest OR criminal OR conviction OR mugshot OR court)"],
    [tag |-> <<"c", "o", "u", "r", "t">>,
     group |-> "(lawsuit OR court case OR civil OR judgment)"],
    [tag |-> <<"w", "a", "r", "r", "a", "n", "t", "s">>,
     group |-> "(warrant OR wanted OR fugitive)"],
    [tag |-> <<"b", "a", "n", "k", "r", "u", "p", "t", "c", "y">>,
     group |-> "(bankruptcy OR chapter 7 OR chapter 11 OR debt)"],
    [tag |-> <<"p", "r", "o", "p", "e", "r", "t", "y">>,
     group |-> "(property records OR real estate OR deed OR owner)"],
    [tag |-> <<"d", "e", "e", "d", "s">>,
     group |-> "(deed OR mortgage OR property transfer)"],
    [tag |-> <<"f", "o", "r", "e", "c", "l", "o", "s", "u", "r", "e">>,
     group |-> "(foreclosure OR tax lien OR sheriff sale)"],
    [tag |-> <<"b", "u", "s", "i", "n", "e", "s", "s", "_", "p", "r", "o", "p", "e", "r", "t", "y">>,
     group |-> "(commercial property OR business real estate)"],
    [tag |-> <<"b", "i", "r", "t", "h">>,
     group |-> "(birth certificate OR birth record OR born)"],
    [tag |-> <<"d", "e", "a", "t", "h">>,
     group |-> "(death certificate OR obituary OR died OR deceased)"],
    [tag |-> <<"m", "a", "r", "r", "i", "a", "g", "e">>,
     group |-> "(marriage certificate OR wedding OR married OR divorce)"],
    [tag |-> <<"a", "d", "d", "r", "e", "s", "s">>,
     group |-> "(address OR residence OR lived OR home)"],
    [tag |-> <<"p", "h", "o", "n", "e">>,
     group |-> "(phone number OR telephone OR contact)"],
    [tag |-> <<"l", "i", "c", "e", "n", "s", "e", "s">>,
     group |-> "(professional license OR certification OR permit)"],
    [tag |-> <<"b", "u", "s", "i", "n", "e", "s", "s">>,
     group |-> "(business registration OR LLC OR corporation OR company)"],
    [tag |-> <<"e", "m", "p", "l", "o", "y", "m", "e", "n", "t">>,
     group |-> "(employment OR job OR work OR employer)"],
    [tag |-> <<"e", "d", "u", "c", "a", "t", "i", "o", "n">>,
     group |-> "(education OR school OR university OR degree OR alumni)"],
    [tag |-> <<"p", "a", "t", "e", "n", "t", "s">>,
     group |-> "(patent OR trademark OR intellectual property)"],
    [tag |-> <<"a", "s", "s", "e", "t", "s">>,
     group |-> "(assets OR wealth OR financial OR investments)"],
    [tag |-> <<"c", "o", "r", "p", "o", "r", "a", "t", "i", "o", "n", "s">>,
     group |-> "(corporation OR SEC filing OR executive OR officer)"],
    [tag |-> <<"s", "e", "c">>,
     group |-> "(SEC filing OR insider trading OR executive compensation)"],
    [tag |-> <<"t", "a", "x">>,
     group |-> "(tax records OR IRS OR tax lien OR assessment)"],
    [tag |-> <<"v", "e", "h", "i", "c", "l", "e", "s">>,
     group |-> "(vehicle registration OR car OR license plate)"],
    [tag |-> <<"d", "r", "i", "v", "e", "r", "s">>,
     group |-> "(drivers license OR driving record OR DMV OR DUI)"],
    [tag |-> <<"a", "v", "i", "a", "t", "i", "o", "n">>,
     group |-> "(aircraft registration OR pilot license OR FAA)"],
    [tag |-> <<"s", "o", "c", "i", "a", "l">>,
     group |-> "(Facebook OR Twitter OR Instagram OR LinkedIn OR social media)"],
    [tag |-> <<"o", "n", "l", "i", "n", "e">>,
     group |-> "(username OR profile OR account OR online)"],
    [tag |-> <<"b", "r", "e", "a", "c", "h", "e", "s">>,
     group |-> "(data breach OR password leak OR hack OR exposed)"],
    [tag |-> <<"w", "e", "b", "s", "i", "t", "e", "s">>,
     group |-> "(domain registration OR website owner OR WHOIS)"],
    [tag |-> <<"m", "e", "d", "i", "c", "a", "l">>,
     group |-> "(medical license OR doctor OR physician OR MD)"],
    [tag |-> <<"s", "a", "n", "c", "t", "i", "o", "n", "s">>,
     group |-> "(medical sanctions OR excluded provider OR Medicare fraud)"],
    [tag |-> <<"p", "r", "e", "s", "c", "r", "i", "b", "e", "r", "s">>,
     group |-> "(DEA prescriber OR controlled substance OR prescription)"],
    [tag |-> <<"n", "e", "w", "s", "_", "c", "r", "i", "m", "i", "n", "a", "l">>,
     group |-> "(arrested OR charged OR convicted OR crime news)"],
    [tag |-> <<"n", "e", "w", "s", "_", "b", "u", "s", "i", "n", "e", "s", "s">>,
     group |-> "(CEO OR executive OR business news OR scandal)"],
    [tag |-> <<"i", "n", "v", "e", "s", "t", "i", "g", "a", "t", "i", "o", "n", "s">>,
     group |-> "(investigation OR expose OR corruption OR fraud)"],
    [tag |-> <<"m", "e", "d", "i", "a">>,
     group |-> "(interview OR news OR media OR press OR appearance)"],
    [tag |-> <<"a", "c", "a", "d", "e", "m", "i", "c">>,
     group |-> "(research OR publication OR academic OR scholar)"],
    [tag |-> <<"r", "e", "s", "e", "a", "r", "c", "h">>,
     group |-> "(research paper OR citation OR study OR journal)"],
    [tag |-> <<"g", "r", "a", "n", "t", "s">>,
     group |-> "(research grant OR funding OR NSF OR NIH)"],
    [tag |-> <<"u", "n", "i", "v", "e", "r", "s", "i", "t", "y">>,
     group |-> "(university OR college OR alumni OR faculty)"],
    [tag |-> <<"m", "i", "l", "i", "t", "a", "r", "y">>,
     group |-> "(military service OR veteran OR armed forces)"],
    [tag |-> <<"i", "m", "m", "i", "g", "r", "a", "t", "i", "o", "n">>,
     group |-> "(immigration OR visa OR naturalization OR USCIS)"],
    [tag |-> <<"p", "o", "l", "i", "t", "i", "c", "a", "l">>,
     group |-> "(political contribution OR campaign OR PAC OR lobbying)"],
    [tag |-> <<"n", "o", "n", "p", "r", "o", "f", "i", "t">>,
     group |-> "(nonprofit OR charity OR 501c3 OR foundation)"],
    [tag |-> <<"v", "o", "t", "e", "r">>,
     group |-> "(voter registration OR voting record OR election)"]
  >>

valid_countries ==
  { <<"u","s">>, <<"g","b">>, <<"c","a">>, <<"a","u">>, <<"d","e">>,
    <<"f","r">>, <<"j","p">>, <<"c","n">>, <<"i","n">>, <<"b","r">>,
    <<"m","x">>, <<"r","u">>, <<"i","t">>, <<"e","s">>, <<"n","l">> }

state_countries == { <<"u","s">>, <<"c","a">>, <<"a","u">> }

general == <<"g","e","n","e","r","a","l">>

\* query = str(raw_query).strip() if raw_query is not None else ''
ExtractQuery(data) ==
  LET raw_query == DictGet(data.query, JStr(<<>>))
  IN  IF raw_query.t # "null" THEN Strip(PyStr(raw_query)) ELSE <<>>

\* Mutant: the allow-list check of lines 377-379 is left out
ExtractCountry_NoDefault(data) ==
  LET raw_country == DictGet(data.country, JStr(<<"u","s">>))
  IN  IF raw_country.t # "null" THEN Lower(PyStr(raw_country)) ELSE <<"u","s">>

\* country = str(raw_country).lower(), 'us' when None or not a valid country
ExtractCountry(data) ==
  LET raw_country == DictGet(data.country, JStr(<<"u","s">>))
      country == IF raw_country.t # "null" THEN Lower(PyStr(raw_country))
                 ELSE <<"u","s">>
  IN  IF country \notin valid_countries THEN <<"u","s">> ELSE country

\* state = str(raw_state).lower().strip() if raw_state is not None else ''
ExtractState(data) ==
  LET raw_state == DictGet(data.state, JStr(<<>>))
  IN  IF raw_state.t # "null" THEN Strip(Lower(PyStr(raw_state))) ELSE <<>>

\* search_type = data.get('searchType', 'general'), 'general' unless a str
ExtractSearchType(data) ==
  LET search_type == DictGet(data.searchType, JStr(general))
  IN  IF search_type.t # "str" THEN general ELSE search_type.s

InModifiers(search_type) ==
  \E i \in DOMAIN search_modifiers : search_modifiers[i].tag = search_type

ModifierGroup(search_type) ==
  search_modifiers[CHOOSE i \in DOMAIN search_modifiers :
                     search_modifiers[i].tag = search_type].group

\* Mutant: the template does not quote the query
Template_Unquoted(query, search_type) ==
  query \o <<" ", ModifierGroup(search_type)>>

\* f'"{query}" (keyword OR keyword ...)'
Template(query, search_type) ==
  <<"\"">> \o query \o <<"\"", " ", ModifierGroup(search_type)>>

\* targeted_query before the state is appended (lines 395-447)
ApplyModifier(query, search_type) ==
  IF InModifiers(search_type) THEN Template(query, search_type) ELSE query

\* Mutant: the state is appended whatever the country
AppendState_AnyCountry(targeted_query, state, country) ==
  IF state # <<>> THEN targeted_query \o <<" ">> \o state ELSE targeted_query

\* lines 450-453: the state is appended for us, ca and au only
AppendState(targeted_query, state, country) ==
  IF state # <<>> /\ country \in state_countries
  THEN targeted_query \o <<" ">> \o state
  ELSE targeted_query

\* The locals of search() after lines 368-453, for a dict payload
Targeting(data) ==
  LET query       == ExtractQuery(data)
      country     == ExtractCountry(data)
      state       == ExtractState(data)
      search_type == ExtractSearchType(data)
      modified    == ApplyModifier(query, search_type)
  IN  [ query          |-> query,
        country        |-> country,
        state          |-> state,
        search_type    |-> search_type,
        empty          |-> Strip(query) = <<>>,
        modified       |-> modified,
        targeted_query |-> AppendState(modified, state, country) ]

SelfMarker == <<"@","s">>

\* substitute_self_reference(query, client_id), lines 245-260, on the
\* self_subject stored for the client: the text returned, or ValueError.
\* search() never calls it.
substitute_self_reference(query, self_subject) ==
  IF ~Contains(query, SelfMarker)
  THEN [raises |-> FALSE, value |-> query]
  ELSE IF self_subject.t = "str" /\ self_subject.s # <<>>
       THEN [raises |-> FALSE,
             value |-> Replace(query, SelfMarker, self_subject.s)]
       ELSE [raises |-> TRUE, value |-> <<>>]

----------------------------------------------------------------------------
(* Time and timestamp text *)

TicksPerDay == 2
StartNow == TicksPerDay
TimeZones == {-1, 0, 1}

\* SQLite CURRENT_TIMESTAMP: UTC, 'YYYY-MM-DD HH:MM:SS'
CurrentTimestamp(t) ==
  [date |-> t \div TicksPerDay, sep |-> " ", tod |-> t % TicksPerDay]

\* datetime.isoformat(): 'YYYY-MM-DDTHH:MM:SS'
IsoFormat(t) ==
  [date |-> t \div TicksPerDay, sep |-> "T", tod |-> t % TicksPerDay]

\* datetime.datetime.now(): naive local time
LocalNow(t, z) == t + z

\* now().replace(hour=0, minute=0, second=0, microsecond=0)
TodayStart(t, z) == (LocalNow(t, z) \div TicksPerDay) * TicksPerDay

CharCode(c) == IF c = " " THEN 32 ELSE 84

\* a >= b for two timestamp texts (SQLite compares TEXT bytewise)
TextGE(a, b) ==
  \/ a.date > b.date
  \/ /\ a.date = b.date
     /\ \/ CharCode(a.sep) > CharCode(b.sep)
        \/ /\ CharCode(a.sep) = CharCode(b.sep)
           /\ a.tod >= b.tod

----------------------------------------------------------------------------
(* Tables *)

\* client_id values: a token the caller sent, or a uuid4 drawn for a request;
\* NullClient is the NULL that log_search stores for client_id=None
Given(n) == [src |-> "given", n |-> n]
Uuid(rid) == [src |-> "uuid", n |-> rid]
NoToken == [src |-> "none", n |-> 0]
NullClient == [src |-> "null", n |-> 0]

DefaultDailyLimit == 10

\* clients.unlimited_until: NULL; a text fromisoformat rejects; an ISO text
\* without offset, the local time `at`; an ISO text with a UTC offset such as
\* '2030-01-05T00:00:00+00:00', the instant `at` in ticks of UTC
NullUntil == [k |-> "null", at |-> 0]
BadUntil == [k |-> "bad", at |-> 0]
IsoUntil(t) == [k |-> "iso", at |-> t]
AwareUntil(t) == [k |-> "aware", at |-> t]

\* INSERT INTO clients (client_id, first_ip, first_user_agent): column defaults
NewClientRow ==
  [daily_limit |-> DefaultDailyLimit, unlimited |-> FALSE,
   unlimited_until |-> NullUntil, self_subject |-> JNull]

Msg(text, a, b) == [text |-> text, a |-> a, b |-> b]
NoMsg == Msg("", 0, 0)

\* The row log_search inserts; timestamp is the column default
LogRow(t, rid, query, country, results_count, success, error_message, client_id, search_type, targeted_query, state, status_code) ==
  [ timestamp      |-> CurrentTimestamp(t),
    rid            |-> rid,
    query          |-> query,
    country        |-> country,
    results_count  |-> results_count,
    success        |-> success,
    error_message  |-> error_message,
    client_id      |-> client_id,
    search_type    |-> search_type,
    targeted_query |-> targeted_query,
    state          |-> state,
    status_code    |-> status_code ]

\* log_search with its defaults client_id=None, search_type='general',
\* targeted_query=None, state=None, status_code=200
LogRowDefaults(t, rid, query, country, results_count, success, error_message) ==
  LogRow(t, rid, query, country, results_count, success, error_message,
         NullClient, general, <<>>, <<>>, 200)

\* The table after log_search(row), lines 263-277: the INSERT, or, while the
\* database is locked, the OperationalError that log_search prints and
\* swallows, so that the row is lost
log_search(row) == IF locked THEN search_logs ELSE Append(search_logs, row)

----------------------------------------------------------------------------
(* Rate limiter: check_rate_limit, lines 175-217 *)

\* lines 206-211: SELECT COUNT(*) FROM search_logs
\*   WHERE client_id = ? AND timestamp >= ? AND success = 1
DailyUsageSince(logs, client_id, today_start) ==
  Cardinality({ i \in DOMAIN logs :
                  /\ logs[i].client_id = client_id
                  /\ TextGE(logs[i].timestamp, today_start)
                  /\ logs[i].success })

\* The count with today_start taken from the clock at t, lines 205-211
DailyUsage(logs, client_id, t, z) ==
  DailyUsageSince(logs, client_id, IsoFormat(TodayStart(t, z)))

\* lines 193-202: fromisoformat raises ValueError on a text it rejects; for
\* a text with an offset it yields an aware datetime, and comparing the
\* naive now() with it raises TypeError; the bare except swallows both, so
\* only a text without offset can apply
UnlimitedUntilApplies(unlimited_until, t, z) ==
  /\ unlimited_until.k = "iso"
  /\ LocalNow(t, z) < unlimited_until.at

\* lines 181-202 return nothing: the client has a row and no override, so
\* the call goes on to count the usage
NeedsCount(cl, client_id, t, z) ==
  /\ client_id \in DOMAIN cl
  /\ ~cl[client_id].unlimited
  /\ ~UnlimitedUntilApplies(cl[client_id].unlimited_until, t, z)

\* lines 214-217: the decision once daily_usage is counted
UsageDecision(daily_usage, daily_limit) ==
  IF daily_usage >= daily_limit
  THEN [allowed |-> FALSE,
        msg |-> Msg("Daily limit exceeded", daily_usage, daily_limit)]
  ELSE [allowed |-> TRUE, msg |-> Msg("Usage:", daily_usage, daily_limit)]

\* What check_rate_limit returns when it reads the clients row and the clock
\* at t, and counts the rows of logs not older than the text today_start
RateLimitDecision(cl, logs, client_id, t, z, today_start) ==
  IF client_id \notin DOMAIN cl
  THEN [allowed |-> FALSE, msg |-> Msg("Client not found", 0, 0)]
  ELSE LET s == cl[client_id]
           daily_usage == DailyUsageSince(logs, client_id, today_start)
       IN  IF s.unlimited
           THEN [allowed |-> TRUE, msg |-> Msg("Unlimited access", 0, 0)]
           ELSE IF UnlimitedUntilApplies(s.unlimited_until, t, z)
           THEN [allowed |-> TRUE,
                 msg |-> Msg("Unlimited until", s.unlimited_until.at, 0)]
           ELSE UsageDecision(daily_usage, s.daily_limit)

\* check_rate_limit on tables and a clock that stay as they are during the
\* call
check_rate_limit(client_id) ==
  RateLimitDecision(clients, search_logs, client_id, now, tz,
                    IsoFormat(TodayStart(now, tz)))

----------------------------------------------------------------------------
(* Bounds and input sets *)

MaxRequests == 2
MaxTicks == 1
MaxLimit == 2

Slots == {1, 2}

TokenInputs == {NoToken, Given(1), Given(2)}

\* Tokens of concurrent requests: that of the client known at start-up, and
\* one that has no row yet
SentTokens == {Given(1), Given(2)}

us == <<"u","s">>

Dict(q, c, s, st) == [query |-> q, country |-> c, state |-> s, searchType |-> st]
NoData == Dict(JAbsent, JAbsent, JAbsent, JAbsent)

\* Request bodies: content type and what get_json / form.to_dict yields
Payload(kind, data) == [kind |-> kind, data |-> data]

criminal == <<"c","r","i","m","i","n","a","l">>

Payloads ==
  { Payload("json_dict", Dict(JStr(<<"J","d">>), JStr(us), JAbsent, JStr(criminal))),
    Payload("json_dict", Dict(JStr(<<" ">>), JStr(<<"z","z">>), JStr(<<"T","X">>), JAbsent)),
    Payload("json_list", NoData) }

\* get_serp_usage(): the error dict, or the account's remaining searches
SerpUsages ==
  { [error |-> TRUE, remaining |-> 0],
    [error |-> FALSE, remaining |-> 0],
    [error |-> FALSE, remaining |-> 1] }

\* Upstream documents: the links of the organic results and the sizes of the
\* other list categories
Doc(organic, news, paa) ==
  [ organic_results |-> organic, news_results |-> news, images_results |-> 0,
    video_results |-> 0, people_also_ask |-> paa, related_searches |-> 0,
    local_results |-> 0, shopping_results |-> 0, scholarly_articles |-> 0,
    top_stories |-> 0 ]

ExampleLink ==
  <<"h","t","t","p","s",":","/","/","e",".","c","/","p">>

Docs == { Doc(<<ExampleLink>>, 1, 1) }
NoDoc == Doc(<<>>, 0, 0)

\* What requests.get('https://serpapi.com/search', timeout=10) does
Outcome(kind, status, doc) == [kind |-> kind, status |-> status, doc |-> doc]

UpstreamOutcomes ==
  { Outcome("response", 200, d) : d \in Docs } \cup
  { Outcome("response", s, NoDoc) : s \in {401, 403, 429, 503} } \cup
  { Outcome("timeout", 0, NoDoc), Outcome("network", 0, NoDoc) }

\* A 200 response, a status that is passed on, a timeout and another
\* transport error
FewOutcomes ==
  { o \in UpstreamOutcomes : o.kind # "response" \/ o.status \in {200, 401} }

\* The settings row of the client that exists at start-up
InitSettings ==
  { [daily_limit |-> 1, unlimited |-> FALSE, unlimited_until |-> NullUntil,
     self_subject |-> JNull] }

----------------------------------------------------------------------------
(* Result normaliser: search() lines 468-669 *)

RECURSIVE SplitSlash(_)
\* str.split('/')
SplitSlash(s) ==
  IF \E i \in DOMAIN s : s[i] = "/"
  THEN LET k == CHOOSE i \in DOMAIN s :
                  s[i] = "/" /\ \A j \in 1..(i - 1) : s[j] # "/"
       IN  <<SubSeq(s, 1, k - 1)>> \o SplitSlash(SubSeq(s, k + 1, Len(s)))
  ELSE <<s>>

http == <<"h","t","t","p">>

\* link.split('/')[2] raises IndexError when the link has fewer than two '/'
DomainRaises(link) == StartsWith(link, http) /\ Len(SplitSlash(link)) < 3

\* result.get('link', '').split('/')[2] if link.startswith('http') else ''
SourceDomain(link) ==
  IF StartsWith(link, http) THEN SplitSlash(link)[3] ELSE <<>>

NormalizeRaises(doc) ==
  \E i \in DOMAIN doc.organic_results : DomainRaises(doc.organic_results[i])

\* The list categories of `results`: organic items and the other lists' sizes
Normalize(doc) ==
  [ organic_results    |-> [i \in DOMAIN doc.organic_results |->
                              [link   |-> doc.organic_results[i],
                               domain |-> SourceDomain(doc.organic_results[i])]],
    news_results       |-> doc.news_results,
    image_results      |-> doc.images_results,
    video_results      |-> doc.video_results,
    people_also_ask    |-> doc.people_also_ask,
    related_searches   |-> doc.related_searches,
    local_results      |-> doc.local_results,
    shopping_results   |-> doc.shopping_results,
    scholarly_articles |-> doc.scholarly_articles,
    top_stories        |-> doc.top_stories ]

\* total_results, lines 662-669
TotalResults(results) ==
  Len(results.organic_results) + results.news_results + results.image_results
  + results.video_results + results.local_results + results.shopping_results
  + results.scholarly_articles + results.top_stories

\* logged_query, lines 672-674
LoggedQuery(search_type, query, state) ==
  LET base == <<"[">> \o Upper(search_type) \o <<"]", " ">> \o query
  IN  IF state # <<>>
      THEN base \o <<" ", "[">> \o Upper(state) \o <<"]">>
      ELSE base

----------------------------------------------------------------------------
(* The /search handler, lines 291-709 *)

\* No call of a function or read-only endpoint is on record
NoProbe == [op |-> "none"]

\* What a step of another request or of the clock leaves on record: the
\* locals of a call that is between two reads (search_stats between its
\* SELECTs, check_rate_limit between the clock and its COUNT), nothing else
ReaderLocals ==
  IF probe.op \in {"search_stats_total", "today_start", "search_history_count",
                   "admin_total_clients", "admin_unlimited_clients"}
  THEN probe ELSE NoProbe

\* today_start of check_rate_limit while the call has not computed it
NoTodayStart == [date |-> -1, sep |-> "T", tod |-> 0]

IdleReq ==
  [ pc |-> "idle", rid |-> 0, client_id |-> NullClient,
    payload |-> Payload("none", NoData),
    query |-> <<>>, country |-> us, search_type |-> general, state |-> <<>>,
    targeted_query |-> <<>>, account_calls |-> 0, calls |-> 0,
    today_start |-> NoTodayStart, allowed |-> FALSE,
    outcome |-> Outcome("none", 0, NoDoc),
    status |-> 0, error |-> "", message |-> NoMsg ]

Respond(r, status, error, message) ==
  [r EXCEPT !.pc = "done", !.status = status, !.error = error,
            !.message = message]

\* A new request arrives, one of at most n; line 140-144: the token sent,
\* else a fresh uuid4
StartWithin(s, token, n) ==
  /\ req[s].pc \in {"idle", "done"}
  /\ \A o \in Slots : o < s => req[o].pc \notin {"idle", "done"}
  /\ nreq < n
  /\ nreq' = nreq + 1
  /\ req' = [req EXCEPT ![s] =
       [IdleReq EXCEPT !.pc = "lookup", !.rid = nreq + 1,
          !.client_id = IF token = NoToken THEN Uuid(nreq + 1) ELSE token]]
  /\ probe' = ReaderLocals
  /\ UNCHANGED <<clients, search_logs, now, tz, locked>>

Start(s, token) == StartWithin(s, token, MaxRequests)

\* get_or_create_client, lines 150-151: SELECT ... WHERE client_id = ?
Lookup(s) ==
  /\ req[s].pc = "lookup"
  /\ req' = [req EXCEPT ![s].pc =
       IF req[s].client_id \in DOMAIN clients THEN "monthly" ELSE "insert"]
  /\ probe' = ReaderLocals
  /\ UNCHANGED <<clients, search_logs, now, tz, nreq, locked>>

\* Mutant: the new row is never stored, the token is returned all the same
Insert_NoRow(s) ==
  /\ req[s].pc = "insert"
  /\ req' = [req EXCEPT ![s].pc = "monthly"]
  /\ probe' = ReaderLocals
  /\ UNCHANGED <<clients, search_logs, now, tz, nreq, locked>>

\* get_or_create_client, lines 153-163: INSERT INTO clients. While the
\* database is locked the statement raises OperationalError. client_id is
\* UNIQUE, so a second insert raises IntegrityError; the exception leaves
\* search() at line 294 and skips conn.close() of line 165, and the
\* connection keeps the write transaction that the failed INSERT opened
Insert(s) ==
  /\ req[s].pc = "insert"
  /\ IF locked
     THEN /\ req' = [req EXCEPT ![s] =
                Respond(req[s], 500, "OperationalError", NoMsg)]
          /\ UNCHANGED <<clients, locked>>
     ELSE IF req[s].client_id \in DOMAIN clients
     THEN /\ req' = [req EXCEPT ![s] =
                Respond(req[s], 500, "IntegrityError", NoMsg)]
          /\ locked' = TRUE
          /\ UNCHANGED clients
     ELSE /\ clients' = [c \in DOMAIN clients \cup {req[s].client_id} |->
                IF c = req[s].client_id THEN NewClientRow ELSE clients[c]]
          /\ req' = [req EXCEPT ![s].pc = "monthly"]
          /\ UNCHANGED locked
  /\ probe' = ReaderLocals
  /\ UNCHANGED <<search_logs, now, tz, nreq>>

\* The garbage collector frees the connection that the IntegrityError left
\* open: its transaction is rolled back and the write lock released
CollectGarbage ==
  /\ locked
  /\ locked' = FALSE
  /\ UNCHANGED <<clients, search_logs, now, tz, req, nreq, probe>>

\* lines 298-305: get_serp_usage sends its one request to the account
\* endpoint of the search API provider (line 222), and the monthly quota it
\* reports is checked
Monthly(s, serp_usage) ==
  /\ req[s].pc = "monthly"
  /\ LET asked == [req[s] EXCEPT !.account_calls = @ + 1]
     IN  IF ~serp_usage.error /\ serp_usage.remaining <= 0
         THEN /\ search_logs' = log_search(
                    LogRow(now, req[s].rid, <<>>, us, 0, FALSE,
                           Msg("SERP API monthly limit exceeded", 0, 0),
                           req[s].client_id, general, <<>>, <<>>, 429))
              /\ req' = [req EXCEPT ![s] =
                    Respond(asked, 429, "Monthly SERP API limit exceeded", NoMsg)]
         ELSE /\ req' = [req EXCEPT ![s] = [asked EXCEPT !.pc = "rate"]]
              /\ UNCHANGED search_logs
  /\ probe' = ReaderLocals
  /\ UNCHANGED <<clients, now, tz, nreq, locked>>

\* The request of slot s once check_rate_limit has returned decision d to
\* lines 308-309: `allowed` is bound, and limit_msg is used on a denial only
Decided(r, d) ==
  [r EXCEPT !.pc = IF d.allowed THEN "validate" ELSE "denied",
            !.allowed = d.allowed,
            !.message = IF d.allowed THEN @ ELSE d.msg,
            !.today_start = NoTodayStart]

\* line 308, check_rate_limit lines 177-205: the clients row and the clock
\* are read; the call returns at once for a missing row or an override, and
\* else keeps today_start for the COUNT that follows. No statement changes a
\* clients row that exists, and the clock read of line 198 is not after that
\* of line 205, so these reads are one step
Rate(s) ==
  /\ req[s].pc = "rate"
  /\ IF NeedsCount(clients, req[s].client_id, now, tz)
     THEN req' = [req EXCEPT ![s].pc = "count",
                             ![s].today_start = IsoFormat(TodayStart(now, tz))]
     ELSE req' = [req EXCEPT ![s] =
                    Decided(req[s], check_rate_limit(req[s].client_id))]
  /\ probe' = ReaderLocals
  /\ UNCHANGED <<clients, search_logs, now, tz, nreq, locked>>

\* Mutant: the request goes on to validation whatever the count has decided
RateCount_NoDenial(s) ==
  /\ req[s].pc = "count"
  /\ LET daily_usage == DailyUsageSince(search_logs, req[s].client_id,
                                        req[s].today_start)
         d == UsageDecision(daily_usage, clients[req[s].client_id].daily_limit)
     IN  req' = [req EXCEPT ![s] = [Decided(req[s], d) EXCEPT !.pc = "validate"]]
  /\ probe' = ReaderLocals
  /\ UNCHANGED <<clients, search_logs, now, tz, nreq, locked>>

\* check_rate_limit lines 206-217 and search() lines 308-309: the COUNT over
\* the table as it is by now, with whatever other requests have written
\* since the clock was read, against the today_start kept from then
RateCount(s) ==
  /\ req[s].pc = "count"
  /\ LET daily_usage == DailyUsageSince(search_logs, req[s].client_id,
                                        req[s].today_start)
     IN  req' = [req EXCEPT ![s] =
           Decided(req[s], UsageDecision(daily_usage,
                             clients[req[s].client_id].daily_limit))]
  /\ probe' = ReaderLocals
  /\ UNCHANGED <<clients, search_logs, now, tz, nreq, locked>>

\* lines 310-315: the denial is logged by log_search, on another connection
\* and after whatever other requests have written meanwhile, and answered
RateDenied(s) ==
  /\ req[s].pc = "denied"
  /\ search_logs' = log_search(
        LogRow(now, req[s].rid, <<>>, us, 0, FALSE,
               [req[s].message EXCEPT !.text = "Rate limit: " \o req[s].message.text],
               req[s].client_id, general, <<>>, <<>>, 429))
  /\ req' = [req EXCEPT ![s] =
        Respond(req[s], 429, "Daily search limit exceeded", req[s].message)]
  /\ probe' = ReaderLocals
  /\ UNCHANGED <<clients, now, tz, nreq, locked>>

\* lines 329-366: the log message and the response error of a payload that
\* yields no dict.  A JSON string whose text nests deeper than the
\* interpreter's recursion limit ("json_str_deep": brackets without end, a
\* deep list, an object with a deep value) makes json.loads of line 339 raise
\* RecursionError, which is no ValueError: the except of lines 353-355 takes
\* it.  The row of line 365 is written by no request: data is a dict wherever
\* line 364 is reached
PayloadError(kind) ==
  CASE kind = "json_none"    -> <<"Empty JSON payload", "Empty or malformed JSON payload">>
    [] kind = "json_str_bad" -> <<"Invalid JSON string format", "JSON payload must be a valid object">>
    [] kind = "json_str_deep" -> <<"JSON parsing error", "Failed to parse JSON payload">>
    [] kind = "json_list"    -> <<"JSON array not supported", "JSON payload must be an object, not an array">>
    [] kind = "json_other"   -> <<"Unsupported JSON type", "Unsupported JSON payload type">>
    [] kind = "form_empty"   -> <<"No data provided", "No search data provided">>

HasDict(kind) == kind \in {"json_dict", "json_str", "form"}


\* lines 317-453: payload parsing, validation and query targeting
Validate(s, payload) ==
  /\ req[s].pc = "validate"
  /\ IF ~HasDict(payload.kind)
     THEN /\ req' = [req EXCEPT ![s] =
                Respond([req[s] EXCEPT !.payload = payload], 400,
                        PayloadError(payload.kind)[2], NoMsg)]
          /\ search_logs' = log_search(
                LogRowDefaults(now, req[s].rid, <<>>, us, 0, FALSE,
                               Msg(PayloadError(payload.kind)[1], 0, 0)))
     ELSE LET t == Targeting(payload.data)
              filled == [req[s] EXCEPT !.payload = payload,
                           !.query = t.query, !.country = t.country,
                           !.state = t.state, !.search_type = t.search_type]
          IN  IF t.empty
              THEN /\ req' = [req EXCEPT ![s] =
                         Respond(filled, 400, "Search query is required", NoMsg)]
                   /\ search_logs' = log_search(
                         LogRowDefaults(now, req[s].rid, t.query, t.country, 0,
                                        FALSE, Msg("Empty search query", 0, 0)))
              ELSE /\ req' = [req EXCEPT ![s] =
                         [filled EXCEPT !.targeted_query = t.targeted_query,
                                        !.pc = "upstream"]]
                   /\ UNCHANGED search_logs
  /\ probe' = ReaderLocals
  /\ UNCHANGED <<clients, now, tz, nreq, locked>>

\* Mutant: a timeout is reported like any other transport error
FailureOf_Timeout500(outcome) ==
  CASE outcome.kind \in {"timeout", "network"} ->
         [log |-> Msg("Network error: ", 0, 0), status |-> 500,
          error |-> "Network error: "]
    [] outcome.kind = "response" /\ outcome.status \in {401, 403, 429} ->
         [log |-> Msg("Upstream refused", outcome.status, 0),
          status |-> outcome.status, error |-> "Upstream refused"]
    [] OTHER ->
         [log |-> Msg("SERP API error: ", outcome.status, 0), status |-> 500,
          error |-> "SERP API error: "]

\* lines 685-709: the log message and the response status of each outcome
\* of the upstream call other than a 200 response
FailureOf(outcome) ==
  CASE outcome.kind = "timeout" ->
         [log |-> Msg("Request timeout", 0, 0), status |-> 504,
          error |-> "Request timeout. The search service is taking too long to respond."]
    [] outcome.kind = "network" ->
         [log |-> Msg("Network error: ", 0, 0), status |-> 500,
          error |-> "Network error: "]
    [] outcome.kind = "response" /\ outcome.status = 401 ->
         [log |-> Msg("Invalid SERP API key", 0, 0), status |-> 401,
          error |-> "Invalid SERP API key. Please check your API credentials."]
    [] outcome.kind = "response" /\ outcome.status = 403 ->
         [log |-> Msg("Access denied - insufficient permissions", 0, 0), status |-> 403,
          error |-> "Access denied. Your SERP API key may have insufficient permissions."]
    [] outcome.kind = "response" /\ outcome.status = 429 ->
         [log |-> Msg("Rate limit exceeded", 0, 0), status |-> 429,
          error |-> "Rate limit exceeded. Please try again later."]
    [] OTHER ->
         [log |-> Msg("SERP API error: ", outcome.status, 0), status |-> 500,
          error |-> "SERP API error: "]

\* The NameError of line 679, raised once the success row is written
NameErrorText == "name 'response_data' is not defined"

\* The 200 branch gets as far as line 675: normalisation raised nothing
ReachesSuccessLog(outcome) ==
  /\ outcome.kind = "response" /\ outcome.status = 200
  /\ ~NormalizeRaises(outcome.doc)

\* A row of the except and error branches, lines 686-708
FailureRow(r, t, m) == LogRowDefaults(t, r.rid, r.query, r.country, 0, FALSE, m)

\* The row search() hands to log_search first once the upstream call has
\* returned or raised: the success row of line 675, else the row of the
\* failure
UpstreamRow(r, outcome, t) ==
  IF outcome.kind = "response" /\ outcome.status = 200
  THEN IF NormalizeRaises(outcome.doc)
       THEN FailureRow(r, t, Msg("list index out of range", 0, 0))
       ELSE LogRow(t, r.rid,
                   LoggedQuery(r.search_type, r.query, r.state),
                   r.country, TotalResults(Normalize(outcome.doc)), TRUE,
                   NoMsg, r.client_id, r.search_type, r.targeted_query,
                   r.state, 200)
  ELSE FailureRow(r, t, FailureOf(outcome).log)

\* The status search() answers with once the upstream call is over: a 200
\* response ends in the except branch of line 706 (NameError or IndexError)
UpstreamStatus(outcome) ==
  IF outcome.kind = "response" /\ outcome.status = 200
  THEN 500
  ELSE FailureOf(outcome).status

\* The 'error' text of that answer
UpstreamError(outcome) ==
  IF outcome.kind = "response" /\ outcome.status = 200
  THEN IF NormalizeRaises(outcome.doc)
       THEN "list index out of range"
       ELSE NameErrorText
  ELSE FailureOf(outcome).error

\* lines 455-676 and 685-709: the one call to the search API and the first
\* row written after it. A failure is answered at once; on the 200 branch
\* the success row is committed and line 679 then raises NameError
Upstream(s, outcome) ==
  /\ req[s].pc = "upstream"
  /\ search_logs' = log_search(UpstreamRow(req[s], outcome, now))
  /\ LET called == [req[s] EXCEPT !.calls = @ + 1, !.outcome = outcome]
     IN  req' = [req EXCEPT ![s] =
           IF ReachesSuccessLog(outcome)
           THEN [called EXCEPT !.pc = "except"]
           ELSE Respond(called, UpstreamStatus(outcome),
                        UpstreamError(outcome), NoMsg)]
  /\ probe' = ReaderLocals
  /\ UNCHANGED <<clients, now, tz, nreq, locked>>

\* lines 706-709: the except branch logs the NameError, on a new connection
\* and after whatever other requests have written meanwhile, and answers 500
ExceptBranch(s) ==
  /\ req[s].pc = "except"
  /\ search_logs' = log_search(
        FailureRow(req[s], now, Msg(NameErrorText, 0, 0)))
  /\ req' = [req EXCEPT ![s] =
        Respond(req[s], UpstreamStatus(req[s].outcome),
                UpstreamError(req[s].outcome), NoMsg)]
  /\ probe' = ReaderLocals
  /\ UNCHANGED <<clients, now, tz, nreq, locked>>

\* Wall-clock time passes
Tick ==
  /\ now < StartNow + MaxTicks
  /\ now' = now + 1
  /\ probe' = ReaderLocals
  /\ UNCHANGED <<clients, search_logs, tz, req, nreq, locked>>

Init ==
  /\ \E s \in InitSettings : clients = (Given(1) :> s)
  /\ search_logs = <<>>
  /\ now = StartNow
  /\ tz \in {-1, 0}
  /\ req = [s \in Slots |-> IdleReq]
  /\ nreq = 0
  /\ probe = NoProbe
  /\ locked = FALSE

Next ==
  \/ \E s \in Slots, token \in SentTokens : Start(s, token)
  \/ \E s \in Slots : Lookup(s)
  \/ \E s \in Slots : Insert(s)
  \/ \E s \in Slots, u \in SerpUsages : Monthly(s, u)
  \/ \E s \in Slots : Rate(s)
  \/ \E s \in Slots : RateCount(s)
  \/ \E s \in Slots : RateDenied(s)
  \/ \E s \in Slots, p \in Payloads : Validate(s, p)
  \/ \E s \in Slots, o \in FewOutcomes : Upstream(s, o)
  \/ \E s \in Slots : ExceptBranch(s)
  \/ CollectGarbage
  \/ Tick

Spec == Init /\ [][Next]_vars

----------------------------------------------------------------------------
(* The rate limiter on its own: rows written by log_search, the clock, and *)
(* calls of check_rate_limit                                               *)

MaxLogs == 3

\* Settings an administrator can have stored for a client
RateSettings ==
  { [daily_limit |-> l, unlimited |-> f.u, unlimited_until |-> f.w,
     self_subject |-> JNull] :
      l \in 1..MaxLimit,
      f \in { [u |-> FALSE, w |-> NullUntil], [u |-> TRUE, w |-> NullUntil],
              [u |-> FALSE, w |-> IsoUntil(StartNow + 1)],
              [u |-> FALSE, w |-> AwareUntil(StartNow + MaxTicks + 1)],
              [u |-> FALSE, w |-> BadUntil] } }

RateInit ==
  /\ \E s \in RateSettings :
       clients = (Given(1) :> s @@ Given(2) :> NewClientRow)
  /\ search_logs = <<>>
  /\ now = StartNow
  /\ tz \in TimeZones
  /\ req = [s \in Slots |-> IdleReq]
  /\ nreq = 0
  /\ probe = NoProbe
  /\ locked = FALSE

\* log_search, lines 263-276, as search() calls it for a resolved client
LogSearch(client_id, success) ==
  /\ Len(search_logs) < MaxLogs
  /\ search_logs' = log_search(
        LogRow(now, 0, <<>>, us, 0, success, NoMsg, client_id, general,
               <<>>, <<>>, IF success THEN 200 ELSE 429))
  /\ probe' = ReaderLocals
  /\ UNCHANGED <<clients, now, tz, req, nreq, locked>>

\* check_rate_limit, lines 177-205: the clients row and the clock are read;
\* the call returns at once for a missing row or an override, and else
\* keeps today_start for the COUNT that follows
CheckRateLimit(client_id) ==
  /\ probe' = IF NeedsCount(clients, client_id, now, tz)
              THEN [ op |-> "today_start", client_id |-> client_id, at |-> now,
                     today_start |-> IsoFormat(TodayStart(now, tz)) ]
              ELSE [ op |-> "check_rate_limit", client_id |-> client_id,
                     result |-> check_rate_limit(client_id) ]
  /\ UNCHANGED <<clients, search_logs, now, tz, req, nreq, locked>>

\* check_rate_limit, lines 206-217: the COUNT over the table as it is by
\* now, against the today_start computed before, and the decision
CountUsage ==
  /\ probe.op = "today_start"
  /\ probe' = [ op |-> "check_rate_limit", client_id |-> probe.client_id,
                today_start |-> probe.today_start,
                result |-> RateLimitDecision(clients, search_logs,
                              probe.client_id, probe.at, tz,
                              probe.today_start) ]
  /\ UNCHANGED <<clients, search_logs, now, tz, req, nreq, locked>>

RateNext ==
  \/ \E c \in {Given(1), Given(2)}, success \in BOOLEAN : LogSearch(c, success)
  \/ \E c \in {Given(1), Given(2)} : CheckRateLimit(c)
  \/ CountUsage
  \/ Tick

SpecRate == RateInit /\ [][RateNext]_vars

----------------------------------------------------------------------------
(* Query targeting on its own: the payload dicts it is applied to *)

MaxQueryLen == 2

RECURSIVE TextsUpTo(_, _)
\* All texts over an alphabet of at most n characters
TextsUpTo(alphabet, n) ==
  IF n = 0 THEN {<<>>}
  ELSE LET shorter == TextsUpTo(alphabet, n - 1)
       IN  shorter \cup { Append(t, c) : t \in shorter, c \in alphabet }

QueryInputs ==
  { JStr(t) : t \in TextsUpTo({"a", " "}, MaxQueryLen) } \cup
  { JAbsent, JNull, JInt(7), JStr(<<"J"," ","d">>), JStr(<<"\"">>),
    JStr(<<"\f">>) }

CountryInputs ==
  { JStr(c) : c \in valid_countries } \cup
  { JAbsent, JNull, JInt(7), JStr(<<>>), JStr(<<"U","S">>), JStr(<<"G","b">>),
    JStr(<<"z","z">>), JStr(<<" ","u","s">>), JStr(<<"u","k">>) }

StateInputs ==
  { JAbsent, JNull, JStr(<<>>), JStr(<<" ">>), JStr(<<"T","X">>),
    JStr(<<" ","n","y"," ">>), JStr(<<"\f","Q","É">>) }

SearchTypeInputs ==
  { JStr(search_modifiers[i].tag) : i \in DOMAIN search_modifiers } \cup
  { JAbsent, JNull, JInt(7), JStr(general), JStr(Upper(criminal)), JStr(<<>>),
    JStr(<<"é","t","é">>) }

TargetInputs ==
  { Dict(q, c, s, st) : q \in QueryInputs, c \in CountryInputs,
                         s \in StateInputs, st \in SearchTypeInputs }

TargetInit ==
  /\ \E s \in InitSettings : clients = (Given(1) :> s)
  /\ search_logs = <<>>
  /\ now = StartNow
  /\ tz = 0
  /\ req = [s \in Slots |-> IdleReq]
  /\ nreq = 0
  /\ \E d \in TargetInputs : probe = [op |-> "payload", data |-> d]
  /\ locked = FALSE

\* search() lines 368-453 applied to the payload dict: the locals are
\* extracted; a blank query is logged and answered 400 (lines 390-392), any
\* other query is targeted
ApplyTargeting ==
  /\ probe.op = "payload"
  /\ LET t == Targeting(probe.data)
     IN  /\ probe' = [ op |-> "targeting", data |-> probe.data, out |-> t,
                       status |-> IF t.empty THEN 400 ELSE 0,
                       error |-> IF t.empty THEN "Search query is required"
                                 ELSE "" ]
         /\ search_logs' =
              IF t.empty
              THEN log_search(LogRowDefaults(now, 0, t.query, t.country, 0,
                                FALSE, Msg("Empty search query", 0, 0)))
              ELSE search_logs
  /\ UNCHANGED <<clients, now, tz, req, nreq, locked>>

TargetNext == ApplyTargeting

SpecTarget == TargetInit /\ [][TargetNext]_vars

----------------------------------------------------------------------------
(* One /search request on a wide range of bodies, stored self subjects and *)
(* upstream documents                                                      *)

gb == <<"g","b">>

\* Values of the 'query' key: missing, null, empty, blank (space, tab, form
\* feed), plain, with the
\* self-reference marker, and a number
QueryValues ==
  { JAbsent, JNull, JStr(<<>>), JStr(<<" ">>), JStr(<<"\t"," ">>),
    JStr(<<"\f">>), JStr(<<"J","d">>), JStr(<<"@","s">>),
    JStr(<<"a"," ","@","s","@","s">>), JInt(0) }

SinglePayloads ==
  { Payload("json_dict", Dict(q, JAbsent, JAbsent, st)) :
      q \in QueryValues, st \in {JAbsent, JStr(criminal)} }
  \cup
  { Payload("json_dict", Dict(JStr(<<"a">>), JStr(us), JStr(<<"s","t","r","a","ß","e">>),
                              JStr(<<"é","t","é">>))) }
  \cup
  { Payload(k, Dict(q, JStr(gb), JAbsent, JAbsent)) :
      k \in {"json_str", "form"}, q \in {JAbsent, JStr(<<" ">>), JStr(<<"J","d">>)} }
  \cup
  { Payload(k, NoData) :
      k \in {"json_none", "json_str_bad", "json_str_deep", "json_list",
             "json_other", "form_empty"} }

\* Upstream documents with every list category empty or holding one item
SingleDocs ==
  { [ organic_results |-> o, news_results |-> d[1], images_results |-> d[2],
      video_results |-> d[3], people_also_ask |-> d[4],
      related_searches |-> d[5], local_results |-> d[6],
      shopping_results |-> d[7], scholarly_articles |-> d[8],
      top_stories |-> d[9] ] :
      o \in {<<>>, <<ExampleLink>>}, d \in [1..9 -> {0, 1}] }

SingleOutcomes ==
  UpstreamOutcomes \cup { Outcome("response", 200, d) : d \in SingleDocs }

\* clients.self_subject: NULL, empty, or a name
SubjectValues == { JNull, JStr(<<>>), JStr(<<"A","l">>) }

SingleInit ==
  /\ \E s \in InitSettings, subject \in SubjectValues :
       clients = (Given(1) :> [s EXCEPT !.self_subject = subject])
  /\ search_logs = <<>>
  /\ now = StartNow
  /\ tz = 0
  /\ req = [s \in Slots |-> IdleReq]
  /\ nreq = 0
  /\ probe = NoProbe
  /\ locked = FALSE

\* The first request of a run
StartFirst(token) == nreq = 0 /\ Start(1, token)

\* The steps of that request; on the empty table its client is under its
\* quota, so the daily check allows it and the denial of lines 309-315 has
\* no step here
SingleNext ==
  \/ \E token \in {NoToken, Given(1)} : StartFirst(token)
  \/ Lookup(1)
  \/ Insert(1)
  \/ \E u \in SerpUsages : Monthly(1, u)
  \/ Rate(1)
  \/ RateCount(1)
  \/ \E p \in SinglePayloads : Validate(1, p)
  \/ \E o \in SingleOutcomes : Upstream(1, o)
  \/ ExceptBranch(1)
  \/ Tick

SpecSingle == SingleInit /\ [][SingleNext]_vars

----------------------------------------------------------------------------
(* Requests of a client at its quota next to two requests that race for a  *)
(* new token                                                               *)

\* A successful row of the known client, written before the process started
EarlierRow ==
  LogRow(StartNow, 0, <<>>, us, 0, TRUE, NoMsg, Given(1), general, <<>>, <<>>,
         200)

\* The database file outlives the process (CREATE TABLE IF NOT EXISTS, lines
\* 41-75): the table holds the row of an earlier run; the local date is
\* behind the UTC date, where the COUNT of line 206 sees the rows of the day
LockInit ==
  /\ \E s \in InitSettings : clients = (Given(1) :> s)
  /\ search_logs = <<EarlierRow>>
  /\ now = StartNow
  /\ tz = -1
  /\ req = [s \in Slots |-> IdleReq]
  /\ nreq = 0
  /\ probe = NoProbe
  /\ locked = FALSE

\* The account call fails, so that no request ends at the monthly check;
\* the search API answers 200, or the call fails in transport
LockOutcomes ==
  { Outcome("response", 200, d) : d \in Docs } \cup
  { Outcome("network", 0, NoDoc) }

LockNext ==
  \/ \E s \in Slots, token \in TokenInputs :
        StartWithin(s, token, MaxRequests + 1)
  \/ \E s \in Slots : Lookup(s)
  \/ \E s \in Slots : Insert(s)
  \/ \E s \in Slots, u \in {v \in SerpUsages : v.error} : Monthly(s, u)
  \/ \E s \in Slots : Rate(s)
  \/ \E s \in Slots : RateCount(s)
  \/ \E s \in Slots : RateDenied(s)
  \/ \E s \in Slots, p \in Payloads : Validate(s, p)
  \/ \E s \in Slots, o \in LockOutcomes : Upstream(s, o)
  \/ \E s \in Slots : ExceptBranch(s)
  \/ CollectGarbage
  \/ Tick

SpecLock == LockInit /\ [][LockNext]_vars

----------------------------------------------------------------------------
(* /search requests of one worker interleaved with the read-only endpoints *)
(* /search-history, /search-stats, /health and /admin                      *)

\* Query arguments of /search-history: page, and per_page after min(., 100)
PageInputs == {1, 2}
PerPageInputs == {0, 2}

\* Row i can stand at place k of ORDER BY timestamp DESC: fewer than k rows
\* are newer, and at least k rows are not older (the order of rows with equal
\* timestamps is not specified)
CanRank(logs, i, k) ==
  /\ Cardinality({ j \in DOMAIN logs :
                     /\ logs[j].timestamp # logs[i].timestamp
                     /\ TextGE(logs[j].timestamp, logs[i].timestamp) }) < k
  /\ Cardinality({ j \in DOMAIN logs :
                     TextGE(logs[j].timestamp, logs[i].timestamp) }) >= k

\* lines 727-733: the ids SELECT ... ORDER BY timestamp DESC LIMIT ? OFFSET ?
\* can return, for a limit and an offset that are not negative
PageRows(logs, per_page, offset) ==
  LET n == Len(logs)
      m == IF offset >= n THEN 0
           ELSE IF per_page < n - offset THEN per_page ELSE n - offset
  IN  { p \in [1..m -> DOMAIN logs] :
          /\ \A k \in 1..m : CanRank(logs, p[k], offset + k)
          /\ \A k, l \in 1..m : k # l => p[k] # p[l] }

\* search_history, lines 714-724: the query arguments and the first SELECT,
\* COUNT(*) of search_logs
search_history_count(page, per_page) ==
  /\ probe' = [ op |-> "search_history_count", page |-> page,
                per_page |-> per_page, total_count |-> Len(search_logs) ]
  /\ UNCHANGED <<clients, search_logs, now, tz, req, nreq, locked>>

\* What search_history answers once the page is read: the division of line
\* 757 raises ZeroDivisionError for per_page 0, caught at line 759
HistoryAnswer(locals, logs) ==
  IF locals.per_page = 0
  THEN [ op |-> "search_history", status |-> 500,
         error |-> "integer division or modulo by zero" ]
  ELSE [ op |-> "search_history", status |-> 200, logs |-> logs,
         total_count |-> locals.total_count, page |-> locals.page,
         per_page |-> locals.per_page,
         total_pages |->
           (locals.total_count + locals.per_page - 1) \div locals.per_page ]

\* Mutant: the history endpoint prunes the oldest row when it has read the log
search_history_Prune ==
  /\ probe.op = "search_history_count"
  /\ \E logs \in PageRows(search_logs, probe.per_page,
                          (probe.page - 1) * probe.per_page) :
       probe' = HistoryAnswer(probe, logs)
  /\ search_logs' = IF search_logs = <<>> THEN <<>> ELSE Tail(search_logs)
  /\ UNCHANGED <<clients, now, tz, req, nreq, locked>>

\* search_history, lines 726-760: the SELECT of one page, run on the table as
\* it is by now, and the answer
search_history ==
  /\ probe.op = "search_history_count"
  /\ \E logs \in PageRows(search_logs, probe.per_page,
                          (probe.page - 1) * probe.per_page) :
       probe' = HistoryAnswer(probe, logs)
  /\ UNCHANGED <<clients, search_logs, now, tz, req, nreq, locked>>

\* search_stats, lines 765-770: the first SELECT, COUNT(*) of search_logs
search_stats_total ==
  /\ probe' = [op |-> "search_stats_total", total_searches |-> Len(search_logs)]
  /\ UNCHANGED <<clients, search_logs, now, tz, req, nreq, locked>>

\* search_stats, lines 772-823: the SELECT of the successful rows, run after
\* whatever requests have written since the first one, and the answer
search_stats ==
  /\ probe.op = "search_stats_total"
  /\ probe' = [ op |-> "search_stats", total_searches |-> probe.total_searches,
                successful_searches |->
                  Cardinality({i \in DOMAIN search_logs : search_logs[i].success}) ]
  /\ UNCHANGED <<clients, search_logs, now, tz, req, nreq, locked>>

\* health, lines 825-842: SELECT COUNT(*) FROM search_logs
health ==
  /\ probe' = [op |-> "health", database_healthy |-> TRUE]
  /\ UNCHANGED <<clients, search_logs, now, tz, req, nreq, locked>>

\* admin_dashboard behind require_admin, lines 237-243 and 886-895: without
\* the session flag the request is redirected to the login page; else
\* get_serp_usage is called and the first SELECT, COUNT(*) of clients, is run
admin_total_clients(admin_authenticated, serp_usage) ==
  /\ probe' = IF ~admin_authenticated
              THEN [ op |-> "admin_dashboard", status |-> 302,
                     location |-> "admin_login" ]
              ELSE [ op |-> "admin_total_clients", serp_usage |-> serp_usage,
                     total_clients |-> Cardinality(DOMAIN clients) ]
  /\ UNCHANGED <<clients, search_logs, now, tz, req, nreq, locked>>

\* admin_dashboard, lines 897-898: COUNT(*) of the clients with unlimited = 1,
\* on the table as it is by now
admin_unlimited_clients ==
  /\ probe.op = "admin_total_clients"
  /\ probe' = [ probe EXCEPT !.op = "admin_unlimited_clients" ] @@
              [ unlimited_clients |->
                  Cardinality({c \in DOMAIN clients : clients[c].unlimited}) ]
  /\ UNCHANGED <<clients, search_logs, now, tz, req, nreq, locked>>

\* lines 900-901: COUNT(*) of the rows with timestamp >= date('now', 'start
\* of day'), the text 'YYYY-MM-DD' of the UTC date, which every timestamp of
\* that date or a later one follows
TodaySearches(logs, t) ==
  Cardinality({ i \in DOMAIN logs : logs[i].timestamp.date >= t \div TicksPerDay })

\* admin_dashboard, lines 900-942: the third SELECT and the page
admin_dashboard ==
  /\ probe.op = "admin_unlimited_clients"
  /\ probe' = [ op |-> "admin_dashboard", status |-> 200,
                serp_usage |-> probe.serp_usage,
                total_clients |-> probe.total_clients,
                unlimited_clients |-> probe.unlimited_clients,
                today_searches |-> TodaySearches(search_logs, now) ]
  /\ UNCHANGED <<clients, search_logs, now, tz, req, nreq, locked>>

\* The /search requests served next to the readers
MaxSearches == 1

\* /search requests, one at a time, the clock, and the readers step by step: every
\* read of a reader is a step of its own, between two steps of a request
LogNext ==
  \/ \E token \in TokenInputs : StartWithin(1, token, MaxSearches)
  \/ Lookup(1)
  \/ Insert(1)
  \/ \E u \in SerpUsages : Monthly(1, u)
  \/ Rate(1)
  \/ RateCount(1)
  \/ RateDenied(1)
  \/ \E p \in Payloads : Validate(1, p)
  \/ \E o \in FewOutcomes : Upstream(1, o)
  \/ ExceptBranch(1)
  \/ \E page \in PageInputs, per_page \in PerPageInputs :
        search_history_count(page, per_page)
  \/ search_history
  \/ search_stats_total
  \/ search_stats
  \/ health
  \/ \E a \in BOOLEAN, u \in SerpUsages : admin_total_clients(a, u)
  \/ admin_unlimited_clients
  \/ admin_dashboard
  \/ Tick

SpecLog == LockInit /\ [][LogNext]_vars

----------------------------------------------------------------------------
(* Progress of a /search request: the handler's thread keeps running, and  *)
(* the two outbound calls return when requests.get returns or raises       *)

\* get_serp_usage, line 222: requests.get(account.json) is given no timeout,
\* so on an endpoint that accepts the connection and never answers the call
\* does not return and raises nothing
AccountCallBlocks(s) ==
  /\ req[s].pc = "monthly"
  /\ req' = [req EXCEPT ![s].pc = "blocked", ![s].account_calls = @ + 1]
  /\ probe' = ReaderLocals
  /\ UNCHANGED <<clients, search_logs, now, tz, nreq, locked>>

\* The steps of the handler that serves the request of slot s; the search
\* call of line 466 has timeout=10 and so always ends in one of its outcomes
HandlerStep(s) ==
  \/ Lookup(s)
  \/ Insert(s)
  \/ \E u \in SerpUsages : Monthly(s, u)
  \/ AccountCallBlocks(s)
  \/ Rate(s)
  \/ RateCount(s)
  \/ RateDenied(s)
  \/ \E p \in Payloads : Validate(s, p)
  \/ \E o \in UpstreamOutcomes : Upstream(s, o)
  \/ ExceptBranch(s)

LiveNext ==
  \/ \E token \in TokenInputs : Start(1, token)
  \/ HandlerStep(1)
  \/ Tick

SpecLive == Init /\ [][LiveNext]_vars /\ WF_vars(HandlerStep(1))

----------------------------------------------------------------------------
(* /search requests served one after the other, on every outcome of the    *)
(* upstream call                                                           *)

SeqNext ==
  \/ \E token \in TokenInputs : Start(1, token)
  \/ Lookup(1)
  \/ Insert(1)
  \/ \E u \in SerpUsages : Monthly(1, u)
  \/ Rate(1)
  \/ RateCount(1)
  \/ RateDenied(1)
  \/ \E p \in Payloads : Validate(1, p)
  \/ \E o \in UpstreamOutcomes : Upstream(1, o)
  \/ ExceptBranch(1)
  \/ Tick

SpecSeq == Init /\ [][SeqNext]_vars

----------------------------------------------------------------------------
(* The source domain of one organic result, line 503, on its own *)

https == <<"h","t","t","p","s">>

LinkSchemes == { <<>>, http, https, <<"f","t","p">>, <<"h","t","t","p","x">> }
LinkSeparators == { <<>>, <<":">>, <<":","/">>, <<":","/","/">>, <<"/">> }
LinkHosts == { <<>>, <<"e",".","c">> }
LinkPaths == { <<>>, <<"/">>, <<"/","p">> }

\* Values of the 'link' key of an organic result: missing, null, a number,
\* and texts put together from a scheme, a separator, a host and a path
LinkValues ==
  { JAbsent, JNull, JInt(0) } \cup
  { JStr(a \o b \o c \o d) :
      a \in LinkSchemes, b \in LinkSeparators, c \in LinkHosts, d \in LinkPaths }

\* result.get('link', '').split('/')[2] if result.get('link', '')
\* .startswith('http') else '': the domain, or the exception raised
\* (AttributeError for a value without startswith, IndexError for a short list)
OrganicDomain(v) ==
  LET link == DictGet(v, JStr(<<>>))
  IN  IF link.t # "str"
      THEN [raises |-> TRUE, domain |-> <<>>]
      ELSE IF DomainRaises(link.s)
           THEN [raises |-> TRUE, domain |-> <<>>]
           ELSE [raises |-> FALSE, domain |-> SourceDomain(link.s)]

DomainInit ==
  /\ clients = (Given(1) :> NewClientRow)
  /\ search_logs = <<>>
  /\ now = StartNow
  /\ tz = 0
  /\ req = [s \in Slots |-> IdleReq]
  /\ nreq = 0
  /\ \E v \in LinkValues : probe = [op |-> "link", link |-> v]
  /\ locked = FALSE

NormalizeLink ==
  /\ probe.op = "link"
  /\ probe' = [op |-> "source_domain", link |-> probe.link,
               out |-> OrganicDomain(probe.link)]
  /\ UNCHANGED <<clients, search_logs, now, tz, req, nreq, locked>>

DomainNext == NormalizeLink

SpecDomain == DomainInit /\ [][DomainNext]_vars

----------------------------------------------------------------------------
(* Properties of the /search handler *)

Done(s) == req[s].pc = "done"

\* The rows of the log written for request rid
RowsOf(rid) == { i \in DOMAIN search_logs : search_logs[i].rid = rid }

Is200(outcome) == outcome.kind = "response" /\ outcome.status = 200

\* C1: every request that the handler answers, whichever branch it ends
\* in, has exactly one row in search_logs
C1_ExactlyOneLogEntry ==
  \A s \in Slots :
    (Done(s) /\ req[s].error # "IntegrityError")
      => Cardinality(RowsOf(req[s].rid)) = 1

\* C2: a request whose upstream call answers 200 is answered with status
\* 200, and a row marked successful is written for it
C2_Upstream200Answers200 ==
  \A s \in Slots :
    (Done(s) /\ Is200(req[s].outcome))
      => /\ req[s].status = 200
         /\ \E i \in RowsOf(req[s].rid) : search_logs[i].success

\* C5: a request that check_rate_limit has denied carries the usage-ratio
\* message, and once it is answered (429, with that message) the table has
\* a row for its client that is unsuccessful, carries the rate-limit reason
\* with the same ratio and has status code 429
\* (SpecLock: a client at its quota next to a race for a new token)
C5_DenialAnswered429AndLogged ==
  \A s \in Slots :
    /\ req[s].pc = "denied"
         => /\ req[s].message.text = "Daily limit exceeded"
            /\ req[s].message.a >= req[s].message.b
    /\ (Done(s) /\ req[s].message.text = "Daily limit exceeded")
         => /\ req[s].status = 429
            /\ \E i \in RowsOf(req[s].rid) :
                  /\ search_logs[i].client_id = req[s].client_id
                  /\ ~search_logs[i].success
                  /\ search_logs[i].status_code = 429
                  /\ search_logs[i].error_message =
                       Msg("Rate limit: Daily limit exceeded",
                           req[s].message.a, req[s].message.b)

\* C6: the request to the search endpoint (line 466) is sent only after
\* check_rate_limit has returned `allowed` true to line 308 and the payload
\* has yielded a dict with a query that is not blank; a request ended by the
\* monthly check, by a denial or by validation has sent none, and a request
\* that passes sends exactly one, never a second after a timeout or a
\* transport error. The only other request a /search request sends to the
\* provider is the one account request of line 222, before the quota check
C6_OneCallAfterChecks ==
  /\ [] \A s \in Slots :
          /\ req[s].calls > 0
               => /\ req[s].allowed
                  /\ HasDict(req[s].payload.kind)
                  /\ Strip(req[s].query) # <<>>
                  /\ req[s].account_calls = 1
          /\ req[s].pc \in {"lookup", "insert", "monthly", "rate", "count",
                            "denied", "validate", "upstream"}
               => req[s].calls = 0
          /\ req[s].pc = "except" => req[s].calls = 1
          /\ Done(s) => req[s].calls = IF req[s].outcome.kind = "none"
                                       THEN 0 ELSE 1
          /\ (Done(s) /\ (~req[s].allowed \/ req[s].status = 400))
               => req[s].calls = 0
          /\ req[s].account_calls =
               IF req[s].pc \in {"idle", "lookup", "insert", "monthly"}
                  \/ (Done(s) /\ req[s].error \in {"IntegrityError",
                                                   "OperationalError"})
               THEN 0 ELSE 1
  /\ [][ \A s \in Slots : req'[s].rid = req[s].rid =>
           /\ req'[s].calls # req[s].calls
                => /\ req[s].pc = "upstream"
                   /\ req[s].allowed
                   /\ req'[s].pc \in {"done", "except"}
                   /\ req'[s].calls = req[s].calls + 1
           /\ req'[s].allowed # req[s].allowed
                => /\ req[s].pc \in {"rate", "count"}
                   /\ req'[s].pc = "validate"
           /\ (req'[s].pc = "upstream" /\ req[s].pc # "upstream")
                => /\ req[s].pc = "validate"
                   /\ req[s].allowed
                   /\ HasDict(req'[s].payload.kind)
                   /\ Strip(req'[s].query) # <<>>
           /\ (req'[s].pc = "validate" /\ req[s].pc # "validate")
                => /\ req[s].pc \in {"rate", "count"}
                   /\ req'[s].allowed
           /\ (req'[s].pc = "denied" /\ req[s].pc # "denied")
                => /\ req[s].pc \in {"rate", "count"}
                   /\ ~req'[s].allowed
           /\ (req'[s].pc = "done" /\ req[s].pc \in {"monthly", "denied", "validate"})
                => /\ req'[s].calls = 0
                   /\ req'[s].status \in {400, 429} ]_vars

\* A request was allowed by the count and has sent its one search request;
\* a request of the same client that had arrived before it was denied by
\* the count, which saw the row of the later request, and has sent none
C6_Witness ==
  \E s, o \in Slots :
    /\ Done(s)
    /\ req[s].allowed
    /\ req[s].outcome.kind = "response"
    /\ req[s].calls = 1
    /\ req[s].account_calls = 1
    /\ Done(o)
    /\ req[o].client_id = req[s].client_id
    /\ req[o].rid < req[s].rid
    /\ req[o].message.text = "Daily limit exceeded"
    /\ req[o].calls = 0
    /\ req[o].account_calls = 1

\* C10: each outcome of the upstream call has one response status: 401, 403
\* and 429 are passed on, any other non-200 status gives 500, a timeout 504,
\* another transport error 500, an internal exception 500
C10_StatusOfOutcome ==
  \A s \in Slots :
    (Done(s) /\ req[s].outcome.kind # "none")
      => LET o == req[s].outcome
         IN  /\ (o.kind = "response" /\ o.status \in {401, 403, 429})
                  => req[s].status = o.status
             /\ (o.kind = "response" /\ o.status \notin {200, 401, 403, 429})
                  => req[s].status = 500
             /\ o.kind = "timeout" => req[s].status = 504
             /\ o.kind = "network" => req[s].status = 500
             /\ req[s].error \in {"name 'response_data' is not defined",
                                  "list index out of range"}
                  => req[s].status = 500

C10_Witness ==
  \E s \in Slots :
    /\ Done(s)
    /\ req[s].outcome.kind = "timeout"
    /\ req[s].status = 504

----------------------------------------------------------------------------
(* Properties of the rate limiter *)

Checked == probe.op = "check_rate_limit"

\* The instant, in ticks of UTC, at which a row was written
RowInstant(row) == row.timestamp.date * TicksPerDay + row.timestamp.tod

\* Successful rows of the client written since local midnight of today
SuccessesSinceLocalMidnight(client_id) ==
  Cardinality({ i \in DOMAIN search_logs :
                  /\ search_logs[i].client_id = client_id
                  /\ search_logs[i].success
                  /\ RowInstant(search_logs[i]) + tz >= TodayStart(now, tz) })

\* unlimited_until holds a time later than the wall clock reads: a local
\* time for a text without offset, an instant for a text with one
UnlimitedUntilInFuture(client_id) ==
  LET u == clients[client_id].unlimited_until
  IN  \/ u.k = "iso" /\ u.at > LocalNow(now, tz)
      \/ u.k = "aware" /\ u.at > now

NoOverride(client_id) ==
  /\ ~clients[client_id].unlimited
  /\ ~UnlimitedUntilInFuture(client_id)

\* C3: a client without override and with daily quota N is denied when it
\* has exactly N successful rows since local midnight and allowed when it
\* has exactly N-1
C3_DeniedAtQuota ==
  (Checked /\ NoOverride(probe.client_id))
    => LET n == clients[probe.client_id].daily_limit
           k == SuccessesSinceLocalMidnight(probe.client_id)
       IN  /\ k = n => ~probe.result.allowed
           /\ k = n - 1 => probe.result.allowed

\* C4: the unlimited flag, or else an unlimited_until later than the wall
\* clock, allows the request whatever the usage; with neither override the
\* call reports a usage ratio against the client's quota and allows the
\* request exactly when the usage reported is below the quota
C4_OverridesAllow ==
  Checked
    => LET c == probe.client_id
           r == probe.result
       IN  /\ clients[c].unlimited => r.allowed
           /\ (~clients[c].unlimited /\ UnlimitedUntilInFuture(c)) => r.allowed
           /\ NoOverride(c)
                => /\ r.msg.text \in {"Usage:", "Daily limit exceeded"}
                   /\ r.msg.b = clients[c].daily_limit
                   /\ r.allowed <=> r.msg.a < r.msg.b

----------------------------------------------------------------------------
(* Properties of query targeting *)

Targeted == probe.op = "targeting"

\* C7: for a tag of search_modifiers and a non-empty query the targeted
\* query, before the state is appended, is the query once, in double
\* quotes, then the keyword group of the tag; for any other tag it is the
\* query unchanged
C7_ModifierWrapsQuery ==
  Targeted
    => LET o == probe.out
           n == Len(o.query)
       IN  /\ (InModifiers(o.search_type) /\ o.query # <<>>)
                => /\ Len(o.modified) = n + 4
                   /\ o.modified[1] = "\""
                   /\ SubSeq(o.modified, 2, n + 1) = o.query
                   /\ o.modified[n + 2] = "\""
                   /\ o.modified[n + 3] = " "
                   /\ \E i \in DOMAIN search_modifiers :
                        /\ search_modifiers[i].tag = o.search_type
                        /\ o.modified[n + 4] = search_modifiers[i].group
                   /\ o.search_type = criminal
                        => o.modified[n + 4] =
                             "(arrest OR criminal OR conviction OR mugshot OR court)"
           /\ ~InModifiers(o.search_type) => o.modified = o.query

C7_Witness ==
  /\ Targeted
  /\ probe.out.search_type = criminal
  /\ probe.out.query = <<"J"," ","d">>
  /\ probe.out.modified =
       <<"\"", "J", " ", "d", "\"", " ",
         "(arrest OR criminal OR conviction OR mugshot OR court)">>

\* The country code the caller sent, when it sent a string
SuppliedCountry(data) == Lower(data.country.s)

\* C8 as claimed: a state is never appended when the country code the
\* caller sent is outside {us, ca, au}, and the targeted query ends with
\* the state when the code is inside that set
C8_SuppliedCountryDecides ==
  (Targeted /\ ~probe.out.empty /\ probe.data.country.t = "str"
            /\ probe.data.country.s # <<>>)
    => LET o == probe.out
       IN  /\ SuppliedCountry(probe.data) \notin state_countries
                => o.targeted_query = o.modified
           /\ (SuppliedCountry(probe.data) \in state_countries /\ o.state # <<>>)
                => EndsWith(o.targeted_query, o.state)

\* C8 amended: the effective country code decides: outside {us, ca, au} the
\* state is never appended; inside, a state that is non-empty once
\* lowercased and trimmed ends the targeted query
C8_EffectiveCountryDecides ==
  (Targeted /\ ~probe.out.empty)
    => LET o == probe.out
       IN  /\ o.country \notin state_countries
                => o.targeted_query = o.modified
           /\ (o.country \in state_countries /\ o.state # <<>>)
                => /\ EndsWith(o.targeted_query, <<" ">> \o o.state)
                   /\ Len(o.targeted_query) = Len(o.modified) + 1 + Len(o.state)
           /\ o.state = <<>> => o.targeted_query = o.modified

C8_Witness ==
  /\ Targeted
  /\ ~probe.out.empty
  /\ probe.data.country = JStr(<<"g","b">>)
  /\ probe.data.state = JStr(<<"T","X">>)
  /\ probe.out.state = <<"t","x">>
  /\ probe.out.targeted_query = probe.out.modified

\* C9: a country that is absent, null or not in the allow-list becomes
\* "us"; one in the allow-list, compared case-insensitively, is kept
C9_CountryDefaultsToUs ==
  Targeted
    => LET raw == probe.data.country
           listed == raw.t \notin {"absent", "null"}
                       /\ \E c \in valid_countries : Lower(PyStr(raw)) = c
       IN  /\ ~listed => probe.out.country = <<"u","s">>
           /\ listed => probe.out.country = Lower(PyStr(raw))

C9_Witness ==
  /\ Targeted
  /\ probe.data.country = JStr(<<"z","z">>)
  /\ probe.out.country = <<"u","s">>

----------------------------------------------------------------------------
(* Claims about the audit trail and identity resolution, checked under Spec *)

\* C11: a request that was answered with an error status has, at the moment
\* it is answered, a log row of its own that is marked unsuccessful and
\* carries a non-empty error message.
C11_FailureLogged ==
  \A s \in Slots :
    (Done(s) /\ req[s].status # 200)
      => \E i \in RowsOf(req[s].rid) :
            /\ ~search_logs[i].success
            /\ search_logs[i].error_message.text # ""

\* C14: identity resolution has no error path: no request ends inside
\* get_or_create_client, so every request that looked its token up goes on
\* to the quota check.
C14_ResolutionNeverFails ==
  \A s \in Slots :
    ~(Done(s) /\ req[s].error \in {"IntegrityError", "OperationalError"})

\* get_or_create_client has returned for the request of slot s
Resolved(s) ==
  /\ req[s].pc \notin {"idle", "lookup", "insert"}
  /\ ~(Done(s) /\ req[s].error \in {"IntegrityError", "OperationalError"})

\* C13: once get_or_create_client has returned a token, the token has a
\* clients row; a step adds at most one row, only for a token that had none
\* and that a request is inserting, with the default daily quota; and no
\* step changes or removes a row that exists.
C13_GetOrCreate ==
  /\ [](\A s \in Slots : Resolved(s) => req[s].client_id \in DOMAIN clients)
  /\ [][ /\ \A c \in DOMAIN clients :
              c \in DOMAIN clients' /\ clients'[c] = clients[c]
         /\ Cardinality(DOMAIN clients' \ DOMAIN clients) <= 1
         /\ \A c \in DOMAIN clients' \ DOMAIN clients :
              /\ clients'[c].daily_limit = DefaultDailyLimit
              /\ ~clients'[c].unlimited
              /\ \E s \in Slots :
                    /\ req[s].pc = "insert" /\ req[s].client_id = c
                    /\ Resolved(s)' ]_vars

\* A request with a token that had no row got a fresh row with the default
\* quota while the row of the client known at start-up is as it was
C13_Witness ==
  \E s \in Slots :
    /\ Resolved(s)
    /\ req[s].client_id # Given(1)
    /\ req[s].client_id \in DOMAIN clients
    /\ clients[req[s].client_id] = NewClientRow
    /\ clients[Given(1)] \in InitSettings
    /\ clients[Given(1)] # NewClientRow

\* C16: every row written for a request whose client is resolved carries
\* that client's client_id.
C16_RowsTaggedWithClient ==
  \A s \in Slots :
    Resolved(s)
      => \A i \in RowsOf(req[s].rid) :
            search_logs[i].client_id = req[s].client_id

\* The rows written for the request of slot s, in the order of the table
OwnRows(s) ==
  LET Own(row) == row.rid = req[s].rid
  IN  SelectSeq(search_logs, Own)

\* C17: of the rows a finished request has written, check_rate_limit counts
\* one for its client when the request was answered 200 and none when it
\* was answered with an error status.
C17_OnlyAnswered200Counts ==
  \A s \in Slots :
    Done(s)
      => LET counted == DailyUsage(OwnRows(s), req[s].client_id, now, tz)
         IN  IF req[s].status = 200 THEN counted = 1 ELSE counted = 0

----------------------------------------------------------------------------
(* Claims about one request, checked under SpecSingle *)

\* The request of slot s has got past payload parsing with a dict
Parsed(s) ==
  /\ req[s].pc \in {"upstream", "except", "done"}
  /\ HasDict(req[s].payload.kind)

\* C12: a request whose query contains "@s" is dispatched with every "@s"
\* replaced by the self subject stored for its client; when none is stored
\* the request ends with an error of its own and without an upstream call.
C12_SelfReferenceSubstituted ==
  \A s \in Slots :
    (Parsed(s) /\ Contains(req[s].query, SelfMarker))
      => LET subject == clients[req[s].client_id].self_subject
             sub     == substitute_self_reference(req[s].query, subject)
         IN  IF sub.raises
             THEN /\ Done(s)
                  /\ req[s].calls = 0
                  /\ req[s].status \in {400, 500}
             ELSE req[s].targeted_query =
                    AppendState(ApplyModifier(sub.value, req[s].search_type),
                                req[s].state, req[s].country)

\* The 'query' key is missing, null, empty or holds white space only
NoQueryText(data) ==
  \/ data.query.t \in {"absent", "null"}
  \/ /\ data.query.t = "str"
     /\ \A i \in DOMAIN data.query.s : IsSpace(data.query.s[i])

\* C15: a request that passed both quota checks and whose body is a dict
\* with no query text is answered 400 with an error text, without any
\* upstream call, and has an unsuccessful log row naming the empty query.
\* (Spec: the request may run next to a race for a new token)
C15_EmptyQueryRejected ==
  \A s \in Slots :
    (Parsed(s) /\ NoQueryText(req[s].payload.data))
      => /\ Done(s)
         /\ req[s].status = 400
         /\ req[s].error = "Search query is required"
         /\ req[s].calls = 0
         /\ req[s].outcome.kind = "none"
         /\ \E i \in RowsOf(req[s].rid) :
               /\ ~search_logs[i].success
               /\ search_logs[i].error_message.text = "Empty search query"
               /\ search_logs[i].results_count = 0

\* The number of items in all ten list categories of `results`
AllListItems(results) ==
  Len(results.organic_results) + results.news_results + results.image_results
  + results.video_results + results.people_also_ask + results.related_searches
  + results.local_results + results.shopping_results
  + results.scholarly_articles + results.top_stories

\* The rows marked successful of a request whose upstream call is over
SuccessRows(s) ==
  { i \in RowsOf(req[s].rid) : Done(s) /\ search_logs[i].success }

\* C20: the results_count of the successful row is the number of
\* items in all ten list categories of the normalized document.
C20_CountsAllCategories ==
  \A s \in Slots : \A i \in SuccessRows(s) :
    search_logs[i].results_count = AllListItems(Normalize(req[s].outcome.doc))

----------------------------------------------------------------------------
(* Claims about the log as a whole, checked under SpecLog *)

\* C19: every step leaves the rows already in the log in place and
\* unchanged; the log changes only by rows appended at its end.
C19_AppendOnly ==
  [][ /\ Len(search_logs') >= Len(search_logs)
      /\ SubSeq(search_logs', 1, Len(search_logs)) = search_logs ]_vars

\* The history endpoint has answered with the rows of two requests in the log
C19_Witness ==
  /\ probe.op = "search_history"
  /\ probe.status = 200
  /\ probe.total_count >= 2
  /\ Len(probe.logs) = 2
  /\ search_logs[1].rid # search_logs[Len(search_logs)].rid

----------------------------------------------------------------------------
(* Claims about progress, checked under SpecLive *)

\* C18: every /search request that has been received is eventually answered.
C18_EveryRequestReturns ==
  \A s \in Slots : (req[s].pc = "lookup") ~> Done(s)

----------------------------------------------------------------------------
(* Claims about the source domain, checked under SpecDomain *)

\* The link is a text that starts with http:// or https://
AbsoluteHttp(v) ==
  /\ v.t = "str"
  /\ \/ StartsWith(v.s, http \o <<":","/","/">>)
     \/ StartsWith(v.s, https \o <<":","/","/">>)

RECURSIVE UpToSlash(_)
\* The text before the first '/'
UpToSlash(s) ==
  IF s = <<>> \/ Head(s) = "/" THEN <<>> ELSE <<Head(s)>> \o UpToSlash(Tail(s))

\* The host segment of an absolute link: what follows '://' up to the next '/'
HostSegment(s) ==
  LET k == IF StartsWith(s, https) THEN Len(https) + 3 ELSE Len(http) + 3
  IN  UpToSlash(SubSeq(s, k + 1, Len(s)))

\* C21: no link that is a text or is missing makes the normalisation raise;
\* the source domain is the host segment of an absolute http:// or https://
\* link and the empty text for every other such link.
C21_DomainIsHostOrEmpty ==
  (probe.op = "source_domain" /\ probe.link.t \in {"str", "absent"})
    => /\ ~probe.out.raises
       /\ AbsoluteHttp(probe.link) => probe.out.domain = HostSegment(probe.link.s)
       /\ ~AbsoluteHttp(probe.link) => probe.out.domain = <<>>

----------------------------------------------------------------------------
(* Claims about the quota under concurrency and about logged status codes, *)
(* checked under Spec                                                      *)

\* C22: for a client without an override, the successful rows since local
\* midnight never outnumber its daily quota, however its concurrent
\* requests interleave.
C22_QuotaNeverExceeded ==
  \A c \in DOMAIN clients :
    NoOverride(c) => SuccessesSinceLocalMidnight(c) <= clients[c].daily_limit

\* C23: every row written for a request carries, as status_code, the HTTP
\* status the request was answered with.
C23_LoggedStatusIsAnswered ==
  \A s \in Slots :
    Done(s) => \A i \in RowsOf(req[s].rid) :
                  search_logs[i].status_code = req[s].status

====
